---- MODULE Spec2Model ----
(***************************************************************************)
(* Model of linkedin_mcp_server/tools/activity.py: the scroll loader        *)
(* (_scroll_for_items), the two extractors (_scrape_comments,               *)
(* _scrape_reactions) and the orchestrator (get_person_activity); and of    *)
(* the posts cache of linkedin_mcp_server/tools/posts.py.                   *)
(*                                                                          *)
(* Five specifications share the variables:                                 *)
(*   Spec          one call of _scrape_comments or _scrape_reactions on a   *)
(*                 rendered feed, one loop iteration per step;              *)
(*   SpecScroll    one call of _scroll_for_items on a page that grows;      *)
(*   SpecActivity  invocations of get_person_activity, one after the other; *)
(*   SpecLoop      overlapping requests for get_person_activity on the      *)
(*                 server's event loop;                                     *)
(*   SpecPosts     calls of fetch_and_save_linkedin_posts and               *)
(*                 get_saved_posts on the cache file.                       *)
(***************************************************************************)
EXTENDS Integers, Sequences, FiniteSets, TLC

VARIABLES
    \* One call of an extractor (_scrape_comments / _scrape_reactions).
    call,         \* "comments", "reactions", or "none" outside a call
    pc,           \* "idle", "call", "loop", then how the call ended:
                  \* "exhausted", "break", "raised" (outer handler)
    regular,      \* the regular item of the rendered feed
    irregular,    \* the feed may still yield its one irregular item
    items,        \* the known prefix of the list find_elements returned
    idx,          \* how many items the for loop has taken from the list
    comments,     \* local list of _scrape_comments
    reactions,    \* local list of _scrape_reactions
    is_reply,     \* local of _scrape_comments
    post_author,  \* local of _scrape_comments
    \* One call of _scroll_for_items.
    spc,          \* "idle", "enter", "check", "scroll", "sleep", "measure",
                  \* "returned", "raised"
    page,         \* how the page grows when scrolled
    max_items,    \* parameter
    last_height,  \* local
    scrolled,     \* window.scrollTo calls so far (line 29)
    pauses,       \* time.sleep(2) calls so far (line 30)
    measures,     \* height measurements after a scroll so far (line 31)
    \* One invocation of get_person_activity.
    apc,          \* "idle", "nav", "wait", "scroll", "scrolling", "scrape",
                  \* "scraping", "return", "returned"
    phase,        \* "none", "comments", "reactions", "done": the try block
                  \* that is running
    driver,       \* local: "unbound" or "session"
    activities,   \* local dict, or NoResult before line 131
    response,     \* what the tool call returned, or NoResult
    \* The process.
    logged,       \* messages written to the logger
    browserLog,   \* browser actions by phase, consecutive repeats once
    pageOwner,    \* the invocation whose driver.get loaded the current page
    \* The event loop that runs the tool coroutines.
    task,         \* the invocation the loop is running, 0 before the first
    arrived,      \* invocations requested and not yet started
    parked,       \* frames of the invocations suspended at an await
    finished,     \* invocations that have returned
    \* The posts tools (posts.py).
    RAPIDAPI_KEY, \* module global, read from the environment at import
    data_file,    \* the contents of DATA_FILE
    tool,         \* the latest call of a posts tool, with its inputs
    result        \* what that call returned

extractVars ==
    <<call, pc, regular, irregular, items, idx, comments, reactions, is_reply,
      post_author>>

scrollVars ==
    <<spc, page, max_items, last_height, scrolled, pauses, measures>>

activityVars == <<apc, phase, driver, activities, response>>

queueVars == <<task, arrived, parked, finished>>

postsVars == <<RAPIDAPI_KEY, data_file, tool, result>>

\* What the steps of the extractors and of the scroll loader leave alone.
otherVars == <<queueVars, pageOwner, postsVars>>

vars ==
    <<extractVars, scrollVars, activityVars, logged, browserLog, otherVars>>

---------------------------------------------------------------------------
(* Program constants (activity.py:17-18).                                   *)

MAX_COMMENTS == 20

MAX_REACTIONS == 20

---------------------------------------------------------------------------
(* Bounds of the model.                                                     *)

\* Largest number of feed items the container yields (one more than the cap).
MaxItems == 21

\* Page heights are 1..MaxHeight.
MaxHeight == 3

\* Largest number of scrolls after which the page height still changes.
MaxGrow == 3

\* Largest target count, and largest number of items rendered before the
\* first scroll, of a call of _scroll_for_items on its own.
MaxTarget == 2

---------------------------------------------------------------------------
(* The rendered page.  A text read from the page is named by the element    *)
(* it was read from: the feed item's index, the selector, and for texts     *)
(* inside a comment entity the entity's position in the item.               *)

Tx(i, el, e) == [item |-> i, el |-> el, ent |-> e]

\* Python's None, the empty string, and a local name that is not yet bound.
None == Tx(0, "None", 0)

EmptyStr == Tx(0, "", 0)

Unbound == Tx(0, "<unbound>", 0)

\* item.find_element(...) found nothing (NoSuchElementException).
NoElement == <<>>

\* Header texts, word by word.
RepliedTo == <<"replied", "to">>

HeaderTexts ==
    { <<"Ann", "replied", "to", "Bob">>,
      <<"Ann", "likes", "this">>,
      <<"to", "replied">> }

Headers == {NoElement} \cup HeaderTexts

\* article.comments-comment-entity: reply marks the class
\* comments-comment-entity--reply, main and time the presence of
\* span.comments-comment-item__main-content and time.comments-comment-meta__data.
EntityShapes == [reply : BOOLEAN, main : BOOLEAN, time : BOOLEAN]

\* The comment entities of one feed item in document order: none, one or two.
EntityLists ==
    {<<>>} \cup { <<a>> : a \in EntityShapes }
           \cup { <<a, b>> : a \in EntityShapes, b \in EntityShapes }

\* div.feed-shared-update-v2: header is the text of
\* span.update-components-header__text-view (or NoElement), actor, content and
\* sub the presence of span.update-components-actor__title,
\* div.update-components-text and span.update-components-actor__sub-description.
FeedItem(h, a, c, s, es) ==
    [header |-> h, actor |-> a, content |-> c, sub |-> s, entities |-> es]

CommentItems ==
    { FeedItem(h, a, c, TRUE, es) :
        h \in Headers, a \in BOOLEAN, c \in BOOLEAN, es \in EntityLists }

ReactionItems ==
    { FeedItem(h, a, c, s, <<>>) :
        h \in {NoElement, <<"Ann", "likes", "this">>},
        a \in BOOLEAN, c \in BOOLEAN, s \in BOOLEAN }

FullEntity(r) == [reply |-> r, main |-> TRUE, time |-> TRUE]

\* The regular items of a feed: a direct comment, a reply, a reaction.
DirectItem ==
    FeedItem(<<"Ann", "likes", "this">>, TRUE, TRUE, TRUE, <<FullEntity(FALSE)>>)

ReplyItem ==
    FeedItem(<<"Ann", "replied", "to", "Bob">>, TRUE, TRUE, TRUE,
             <<FullEntity(FALSE), FullEntity(TRUE)>>)

ReactionItem ==
    FeedItem(<<"Ann", "likes", "this">>, TRUE, TRUE, TRUE, <<>>)

---------------------------------------------------------------------------
(* Element lookups.                                                         *)

\* needle in hay, as Python's substring test: needle matches at some offset.
MatchAt(needle, hay, k) ==
    \A j \in 1..Len(needle) : hay[k + j - 1] = needle[j]

Contains(needle, hay) ==
    \E k \in 1..(Len(hay) - Len(needle) + 1) : MatchAt(needle, hay, k)

\* Which entities a CSS selector of _scrape_comments matches:
\*   "reply"     article.comments-comment-entity--reply
\*   "original"  article.comments-comment-entity:not(.comments-comment-entity--reply)
\*   "any"       article.comments-comment-entity
Matches(e, sel) ==
    CASE sel = "reply"    -> e.reply
      [] sel = "original" -> ~e.reply
      [] OTHER            -> TRUE

\* item.find_element(selector): the position of the first entity in document
\* order that the selector matches, 0 when it raises NoSuchElementException.
FindEntity(item, sel) ==
    LET hits == { k \in 1..Len(item.entities) : Matches(item.entities[k], sel) }
    IN  IF hits = {} THEN 0 ELSE CHOOSE k \in hits : \A m \in hits : k <= m

---------------------------------------------------------------------------
(* _scrape_comments, one loop iteration (activity.py:46-77).                *)

\* Variant: any header text at all classifies the item as a reply.
ClassifyAlwaysReply(item) == item.header # NoElement

\* Lines 46-49: a failed header lookup classifies the item as direct.
Classify(item) ==
    IF item.header = NoElement THEN FALSE ELSE Contains(RepliedTo, item.header)

\* Variant: the entities are told apart by position, the reply last.
EntityFieldsByPosition(i, item, isReply) ==
    LET n == Len(item.entities)
    IN  IF isReply
        THEN IF n < 2 \/ ~item.entities[n].main \/ ~item.entities[n].time
                \/ ~item.entities[1].main
             THEN [ok |-> FALSE]
             ELSE [ok |-> TRUE,
                   comment |-> Tx(i, "main-content", n),
                   timestamp |-> Tx(i, "meta__data", n),
                   original_comment |-> Tx(i, "main-content", 1)]
        ELSE IF n < 1 \/ ~item.entities[1].main \/ ~item.entities[1].time
             THEN [ok |-> FALSE]
             ELSE [ok |-> TRUE,
                   comment |-> Tx(i, "main-content", 1),
                   timestamp |-> Tx(i, "meta__data", 1),
                   original_comment |-> None]

\* Variant: a missing original comment is tolerated and left None.
EntityFieldsNoOriginal(i, item, isReply) ==
    LET r == FindEntity(item, IF isReply THEN "reply" ELSE "any")
    IN  IF r = 0 \/ ~item.entities[r].main \/ ~item.entities[r].time
        THEN [ok |-> FALSE]
        ELSE [ok |-> TRUE,
              comment |-> Tx(i, "main-content", r),
              timestamp |-> Tx(i, "meta__data", r),
              original_comment |->
                  IF isReply /\ FindEntity(item, "original") # 0
                             /\ item.entities[FindEntity(item, "original")].main
                  THEN Tx(i, "main-content", FindEntity(item, "original"))
                  ELSE None]

\* Lines 63-73: the comment, timestamp and original_comment of item i, or
\* ok = FALSE when one of the lookups raises.
EntityFields(i, item, isReply) ==
    IF isReply
    THEN LET r == FindEntity(item, "reply")
             o == FindEntity(item, "original")
         IN  IF r = 0 \/ ~item.entities[r].main \/ ~item.entities[r].time
                \/ o = 0 \/ ~item.entities[o].main
             THEN [ok |-> FALSE]
             ELSE [ok |-> TRUE,
                   comment |-> Tx(i, "main-content", r),
                   timestamp |-> Tx(i, "meta__data", r),
                   original_comment |-> Tx(i, "main-content", o)]
    ELSE LET c == FindEntity(item, "any")
         IN  IF c = 0 \/ ~item.entities[c].main \/ ~item.entities[c].time
             THEN [ok |-> FALSE]
             ELSE [ok |-> TRUE,
                   comment |-> Tx(i, "main-content", c),
                   timestamp |-> Tx(i, "meta__data", c),
                   original_comment |-> None]

\* Lines 51-75, the inner try: author is the value of the local post_author
\* afterwards (line 52 rebinds it only when the actor title is found), ok
\* tells whether line 75 was reached, and record is what it appended.
CommentTry(i, item, isReply, author) ==
    IF ~item.actor
    THEN [ok |-> FALSE, author |-> author]
    ELSE LET f == EntityFields(i, item, isReply)
         IN  IF ~f.ok
             THEN [ok |-> FALSE, author |-> Tx(i, "actor__title", 0)]
             ELSE [ok |-> TRUE, author |-> Tx(i, "actor__title", 0),
                   record |->
                     [post_author |-> Tx(i, "actor__title", 0),
                      post_content |-> IF item.content
                                       THEN Tx(i, "update-components-text", 0)
                                       ELSE EmptyStr,
                      is_reply |-> isReply,
                      original_comment |-> f.original_comment,
                      comment |-> f.comment,
                      timestamp |-> f.timestamp]]

\* Lines 76-77: the handler formats post_author into the warning; reading the
\* name while it is unbound raises UnboundLocalError out of the handler.
HandlerRaises(author) == author = Unbound

\* One iteration for item i of the list: the new comments, the locals, and
\* raised = TRUE when an exception leaves the loop for line 79.
CommentIteration(i, item, cs, author) ==
    LET isReply == Classify(item)
        t == CommentTry(i, item, isReply, author)
    IN  IF t.ok
        THEN [comments |-> Append(cs, t.record), post_author |-> t.author,
              is_reply |-> isReply, raised |-> FALSE]
        ELSE [comments |-> cs, post_author |-> t.author,
              is_reply |-> isReply, raised |-> HandlerRaises(t.author)]

---------------------------------------------------------------------------
(* _scrape_reactions, one loop iteration (activity.py:92-104).              *)

\* item.find_element(selector).text for a selector of the item itself.
Missing == Tx(0, "<NoSuchElement>", 0)

FindText(i, present, el) == IF present THEN Tx(i, el, 0) ELSE Missing

\* Variant: a missing reaction label is replaced by the empty string.
ReactionFieldsDefaulted(i, item) ==
    [post_author |-> FindText(i, item.actor, "actor__title"),
     post_content |-> FindText(i, item.content, "update-components-text"),
     reaction |-> IF item.header # NoElement
                  THEN Tx(i, "header__text-view", 0) ELSE EmptyStr,
     timestamp |-> FindText(i, item.sub, "actor__sub-description")]

\* Lines 93-96: the four lookups.
ReactionFields(i, item) ==
    [post_author |-> FindText(i, item.actor, "actor__title"),
     post_content |-> FindText(i, item.content, "update-components-text"),
     reaction |-> FindText(i, item.header # NoElement, "header__text-view"),
     timestamp |-> FindText(i, item.sub, "actor__sub-description")]

\* Lines 92-104: the record is appended only when no lookup raised.
ReactionIteration(i, item, rs) ==
    LET f == ReactionFields(i, item)
    IN  IF \E k \in DOMAIN f : f[k] = Missing THEN rs ELSE Append(rs, f)

---------------------------------------------------------------------------
(* The logger and the browser.                                              *)

\* One more browser action of the running phase; a kind that ends in
\* "-timeout" or "-error" is a driver call that raised.
Browse(log, ph, kind) ==
    IF Len(log) > 0 /\ log[Len(log)] = <<ph, kind>> THEN log
    ELSE Append(log, <<ph, kind>>)

\* Variant: the bound test is off by one.
AtLimitOffByOne(list, max) == Len(list) > max

\* Lines 43 and 90: the bound test at the top of the loop body.
AtLimit(list, max) == Len(list) >= max

---------------------------------------------------------------------------
(* The extractors, one loop iteration per step.  The feed is any list of at *)
(* most MaxItems items that are all the feed's regular item except at most  *)
(* one, which has any shape.  The list find_elements returns is revealed    *)
(* item by item as the loop reaches it: the code never looks ahead in the   *)
(* list nor at its length.                                                  *)

Ended == {"exhausted", "break", "raised"}

\* The irregular items of the feeds the orchestrator reads: an item without
\* actor title, a comment item without comment entity, a reaction item
\* without label.
ActivityOddItems ==
    IF call = "comments"
    THEN {[regular EXCEPT !.actor = FALSE], [regular EXCEPT !.entities = <<>>]}
    ELSE {[regular EXCEPT !.actor = FALSE], [regular EXCEPT !.header = NoElement]}

\* The items the list can hold next.  Under the orchestrator the irregular
\* item, if the feed has one, is the first item of the list.
NextItems ==
    {regular} \cup (IF ~irregular THEN {}
                    ELSE IF apc = "scraping" THEN ActivityOddItems
                    ELSE IF call = "comments" THEN CommentItems
                    ELSE ReactionItems)

\* Lines 40-41 / 87-88: the container lookup, which raises into the outer
\* handler when the container is gone.
FindContainer(found) ==
    /\ pc = "call"
    /\ pc' = IF found THEN "loop" ELSE "raised"
    /\ logged' = IF found THEN logged
                 ELSE logged \cup {"error:" \o call \o "-list"}
    /\ browserLog' = Browse(browserLog, phase, "extract")
    /\ UNCHANGED <<call, regular, irregular, items, idx, comments, reactions,
                   is_reply, post_author, scrollVars, activityVars>>
    /\ UNCHANGED otherVars

\* Lines 42-80: the loop takes the next item of the list.
ScrapeCommentsItem(item) ==
    /\ pc = "loop" /\ call = "comments"
    /\ idx = Len(items) /\ idx < MaxItems
    /\ items' = Append(items, item)
    /\ idx' = idx + 1
    /\ irregular' = (irregular /\ item = regular /\ apc # "scraping")
    /\ browserLog' = Browse(browserLog, phase, "extract")
    /\ IF AtLimit(comments, MAX_COMMENTS)
       THEN /\ pc' = "break"
            /\ UNCHANGED <<comments, is_reply, post_author, logged>>
       ELSE LET r == CommentIteration(idx + 1, item, comments, post_author)
            IN  /\ comments' = r.comments
                /\ is_reply' = r.is_reply
                /\ post_author' = r.post_author
                /\ pc' = IF r.raised THEN "raised" ELSE "loop"
                /\ logged' =
                     IF r.raised THEN logged \cup {"error:comments-list"}
                     ELSE IF Len(r.comments) = Len(comments)
                          THEN logged \cup {"warning:comment-item"}
                          ELSE logged
    /\ UNCHANGED <<call, regular, reactions, scrollVars, activityVars>>
    /\ UNCHANGED otherVars

\* Lines 89-104.
ScrapeReactionsItem(item) ==
    /\ pc = "loop" /\ call = "reactions"
    /\ idx = Len(items) /\ idx < MaxItems
    /\ items' = Append(items, item)
    /\ idx' = idx + 1
    /\ irregular' = (irregular /\ item = regular /\ apc # "scraping")
    /\ browserLog' = Browse(browserLog, phase, "extract")
    /\ IF AtLimit(reactions, MAX_REACTIONS)
       THEN /\ pc' = "break"
            /\ UNCHANGED reactions
       ELSE /\ reactions' = ReactionIteration(idx + 1, item, reactions)
            /\ pc' = "loop"
    /\ UNCHANGED <<call, regular, comments, is_reply, post_author, logged,
                   scrollVars, activityVars>>
    /\ UNCHANGED otherVars

\* The list is exhausted: the for loop ends and the function returns.
ListExhausted ==
    /\ pc = "loop"
    /\ pc' = "exhausted"
    /\ UNCHANGED <<call, regular, irregular, items, idx, comments, reactions,
                   is_reply, post_author, scrollVars, activityVars, logged,
                   browserLog>>
    /\ UNCHANGED otherVars

\* Line 42 / 89: the list find_elements returned also holds the items the
\* loop never took, because it left by the break or by an exception.
RestOfList(item) ==
    /\ pc \in {"break", "raised"} /\ idx > 0
    /\ Len(items) < MaxItems
    /\ items' = Append(items, item)
    /\ irregular' = (irregular /\ item = regular)
    /\ UNCHANGED <<call, pc, regular, idx, comments, reactions, is_reply,
                   post_author, scrollVars, activityVars, logged, browserLog>>
    /\ UNCHANGED otherVars

NoResult == [pending |-> TRUE]

NoPage == [h0 |-> 0, heights |-> <<>>, c0 |-> 0, per |-> 0]

\* No invocation was ever requested.
QueueIdle ==
    /\ task = 0 /\ arrived = {} /\ parked = {} /\ finished = {}

\* No file on disk.
NoFile == [exists |-> FALSE, valid |-> FALSE, posts |-> <<>>]

NoCall == [name |-> "none"]

PostsIdle ==
    /\ RAPIDAPI_KEY = "" /\ data_file = NoFile /\ tool = NoCall
    /\ result = NoResult

OthersIdle == QueueIdle /\ pageOwner = 0 /\ PostsIdle

ScrollIdle ==
    /\ spc = "idle" /\ page = NoPage /\ max_items = 0 /\ last_height = 0
    /\ scrolled = 0 /\ pauses = 0 /\ measures = 0

ActivityIdle ==
    /\ apc = "idle" /\ phase = "none" /\ driver = "unbound"
    /\ activities = NoResult /\ response = NoResult

InitExtract ==
    /\ call \in {"comments", "reactions"}
    /\ pc = "call"
    /\ regular \in (IF call = "comments" THEN {DirectItem, ReplyItem}
                                         ELSE {ReactionItem})
    /\ irregular = TRUE
    /\ items = <<>>
    /\ idx = 0
    /\ comments = <<>>
    /\ reactions = <<>>
    /\ is_reply = FALSE
    /\ post_author = Unbound
    /\ ScrollIdle
    /\ ActivityIdle
    /\ logged = {}
    /\ browserLog = <<>>
    /\ OthersIdle

NextExtract ==
    \/ \E found \in BOOLEAN : FindContainer(found)
    \/ \E item \in NextItems : ScrapeCommentsItem(item)
    \/ \E item \in NextItems : ScrapeReactionsItem(item)
    \/ ListExhausted
    \/ \E item \in NextItems : RestOfList(item)

Spec == InitExtract /\ [][NextExtract]_vars

---------------------------------------------------------------------------
(* _scroll_for_items (activity.py:21-34), one statement per step.           *)
(* A page is its height before any scroll (h0), the heights it has after    *)
(* the 1st, 2nd, ... scroll once the settle pause is over (heights; after   *)
(* more scrolls it keeps the last one), the number of feed items rendered   *)
(* at first (c0) and the number each scroll adds while the page can still   *)
(* change (per).                                                            *)

Min2(a, b) == IF a <= b THEN a ELSE b

HeightSeqs == UNION { [1..n -> 1..MaxHeight] : n \in 0..MaxGrow }

ScrollPages ==
    { [h0 |-> h, heights |-> hs, c0 |-> c, per |-> d] :
        h \in 1..MaxHeight, hs \in HeightSeqs, c \in 0..MaxTarget,
        d \in 0..1 }

\* document.body.scrollHeight after k scrolls.
HeightAfter(pg, k) ==
    IF k = 0 \/ pg.heights = <<>> THEN pg.h0
    ELSE pg.heights[Min2(k, Len(pg.heights))]

\* len(find_elements("div.feed-shared-update-v2")) after k scrolls.
CountAfter(pg, k) == pg.c0 + pg.per * Min2(k, Len(pg.heights))

\* No scroll beyond this one is ever needed on a page of the model.
ScrollCap == MaxGrow + 2

\* Variant: the count test is strict.
TargetReachedStrict(count, target) == count > target

\* Line 26.
TargetReached(count, target) == count >= target

\* Line 32.
SameHeight(new, last) == new = last

\* Variant: last_height keeps the first measurement.
NextLastHeightStale(last, new) == last

\* Line 34.
NextLastHeight(last, new) == new

\* Line 23.
ScrollEnter ==
    /\ spc = "enter"
    /\ last_height' = HeightAfter(page, scrolled)
    /\ spc' = "check"
    /\ browserLog' = Browse(browserLog, phase, "scroll")
    /\ UNCHANGED <<page, max_items, scrolled, pauses, measures, extractVars,
                   activityVars, logged>>
    /\ UNCHANGED otherVars

\* Lines 25-27.
ScrollCheck ==
    /\ spc = "check"
    /\ spc' = IF TargetReached(CountAfter(page, scrolled), max_items)
              THEN "returned" ELSE "scroll"
    /\ browserLog' = Browse(browserLog, phase, "scroll")
    /\ UNCHANGED <<page, max_items, last_height, scrolled, pauses, measures,
                   extractVars, activityVars, logged>>
    /\ UNCHANGED otherVars

\* Line 29.
ScrollDown ==
    /\ spc = "scroll"
    /\ scrolled < ScrollCap
    /\ scrolled' = scrolled + 1
    /\ spc' = "sleep"
    /\ browserLog' = Browse(browserLog, phase, "scroll")
    /\ UNCHANGED <<page, max_items, last_height, pauses, measures,
                   extractVars, activityVars, logged>>
    /\ UNCHANGED otherVars

\* Line 30.
Settle ==
    /\ spc = "sleep"
    /\ pauses' = pauses + 1
    /\ spc' = "measure"
    /\ UNCHANGED <<page, max_items, last_height, scrolled, measures,
                   extractVars, activityVars, logged, browserLog>>
    /\ UNCHANGED otherVars

\* Lines 31-34.
Measure ==
    /\ spc = "measure"
    /\ measures' = measures + 1
    /\ browserLog' = Browse(browserLog, phase, "scroll")
    /\ LET new_height == HeightAfter(page, scrolled)
       IN  IF SameHeight(new_height, last_height)
           THEN /\ spc' = "returned"
                /\ UNCHANGED last_height
           ELSE /\ spc' = "check"
                /\ last_height' = NextLastHeight(last_height, new_height)
    /\ UNCHANGED <<page, max_items, scrolled, pauses, extractVars,
                   activityVars, logged>>
    /\ UNCHANGED otherVars

\* Lines 23, 25, 29, 31: the driver call raises (the session is gone) and
\* the exception leaves _scroll_for_items.
ScrollRaise ==
    /\ spc \in {"enter", "check", "scroll", "measure"}
    /\ spc' = "raised"
    /\ browserLog' = Browse(browserLog, phase, "scroll-error")
    /\ UNCHANGED <<page, max_items, last_height, scrolled, pauses, measures,
                   extractVars, activityVars, logged>>
    /\ UNCHANGED otherVars

ScrollStep ==
    \/ ScrollEnter
    \/ ScrollCheck
    \/ ScrollDown
    \/ Settle
    \/ Measure

ExtractIdle ==
    /\ call = "none" /\ pc = "idle" /\ regular = ReactionItem
    /\ irregular = FALSE /\ items = <<>> /\ idx = 0
    /\ comments = <<>> /\ reactions = <<>>
    /\ is_reply = FALSE /\ post_author = Unbound

\* Specification SpecScroll: one call of _scroll_for_items on any page.
InitScroll ==
    /\ spc = "enter"
    /\ page \in ScrollPages
    /\ max_items \in 0..MaxTarget
    /\ last_height = 0
    /\ scrolled = 0 /\ pauses = 0 /\ measures = 0
    /\ ExtractIdle
    /\ ActivityIdle
    /\ logged = {}
    /\ browserLog = <<>>
    /\ OthersIdle

NextScroll ==
    \/ ScrollEnter
    \/ ScrollCheck
    \/ ScrollDown
    \/ Settle
    \/ Measure
    \/ ScrollRaise

\* The loop is sequential code: it takes its next step whenever it has one.
SpecScroll == InitScroll /\ [][NextScroll]_vars /\ WF_vars(NextScroll)

---------------------------------------------------------------------------
(* get_person_activity (activity.py:119-165).                               *)

TimeoutException == "TimeoutException"

WebDriverException == "WebDriverException"

DriverUnavailable == "DriverUnavailable"

\* error_handler.handle_tool_error: a structured error response.
handle_tool_error(exc, context) == [error |-> exc, context |-> context]

\* Variant: the two try blocks in the other order.
PhaseOrderSwapped == <<"reactions", "comments">>

\* Lines 133-161: the two try blocks, in program order.
PhaseOrder == <<"comments", "reactions">>

PhaseAfter(ph) == IF ph = PhaseOrder[1] THEN PhaseOrder[2] ELSE "done"

\* Variants: a phase that lets the timeout escape, and a phase that catches
\* nothing but the timeout.
PhaseOutcomeTimeoutsEscape(exc) ==
    IF exc = TimeoutException THEN "propagate" ELSE "error"

PhaseOutcomeOnlyTimeouts(exc) ==
    IF exc = TimeoutException THEN "warning" ELSE "propagate"

\* Lines 144-147 / 158-161: what the handlers of a phase do with an
\* exception: log a warning, log an error, or (no handler) let it propagate.
PhaseOutcome(exc) ==
    IF exc = TimeoutException THEN "warning" ELSE "error"

\* The pages the orchestrator scrolls: of constant height or growing once,
\* with no item or with the target count rendered.
ActivityPages ==
    { [h0 |-> 1, heights |-> hs, c0 |-> c, per |-> 0] :
        hs \in {<<>>, <<2>>}, c \in {0, MAX_COMMENTS} }

\* An exception raised inside the try block of the running phase.
PhaseExcept(exc) ==
    IF PhaseOutcome(exc) = "propagate"
    THEN /\ response' = handle_tool_error(exc, "get_person_activity")
         /\ apc' = "returned"
         /\ phase' = "done"
         /\ UNCHANGED <<driver, activities, logged>>
    ELSE /\ logged' = logged \cup
                {PhaseOutcome(exc) \o ":" \o phase \o
                   (IF exc = TimeoutException THEN "-timeout"
                                              ELSE "-unexpected")}
         /\ phase' = PhaseAfter(phase)
         /\ apc' = IF PhaseAfter(phase) = "done" THEN "return" ELSE "nav"
         /\ UNCHANGED <<driver, activities, response>>

\* Lines 129-131, and 164-165 when safe_get_driver raises.  A new invocation
\* starts from fresh locals.
Begin(ok) ==
    /\ IF ok
       THEN /\ driver' = "session"
            /\ activities' = [comments |-> <<>>, reactions |-> <<>>]
            /\ phase' = PhaseOrder[1]
            /\ apc' = "nav"
            /\ response' = NoResult
       ELSE /\ driver' = "unbound"
            /\ activities' = NoResult
            /\ phase' = "done"
            /\ apc' = "returned"
            /\ response' =
                 handle_tool_error(DriverUnavailable, "get_person_activity")
    /\ call' = "none" /\ pc' = "idle" /\ regular' = ReactionItem
    /\ irregular' = FALSE /\ items' = <<>> /\ idx' = 0
    /\ comments' = <<>> /\ reactions' = <<>>
    /\ is_reply' = FALSE /\ post_author' = Unbound
    /\ spc' = "idle" /\ page' = NoPage /\ max_items' = 0
    /\ last_height' = 0 /\ scrolled' = 0 /\ pauses' = 0 /\ measures' = 0
    /\ logged' = {}
    /\ browserLog' = <<>>

\* One invocation after the other has returned.
Invoke(ok) ==
    /\ apc \in {"idle", "returned"}
    /\ Begin(ok)
    /\ UNCHANGED otherVars

\* Line 138 / 152: driver.get loads the page on the shared session.
Navigate(ok) ==
    /\ apc = "nav"
    /\ IF ok
       THEN /\ browserLog' = Browse(browserLog, phase, "navigate")
            /\ apc' = "wait"
            /\ pageOwner' = task
            /\ UNCHANGED <<phase, driver, activities, response, logged>>
       ELSE /\ browserLog' = Browse(browserLog, phase, "navigate-error")
            /\ PhaseExcept(WebDriverException)
            /\ UNCHANGED pageOwner
    /\ UNCHANGED <<extractVars, scrollVars, queueVars, postsVars>>

\* Lines 139-141 / 153-155.
Wait(outcome) ==
    /\ apc = "wait"
    /\ IF outcome = "present"
       THEN /\ browserLog' = Browse(browserLog, phase, "wait")
            /\ apc' = "scroll"
            /\ UNCHANGED <<phase, driver, activities, response, logged>>
       ELSE /\ browserLog' =
                 Browse(browserLog, phase,
                        IF outcome = TimeoutException THEN "wait-timeout"
                                                      ELSE "wait-error")
            /\ PhaseExcept(outcome)
    /\ UNCHANGED <<extractVars, scrollVars>>
    /\ UNCHANGED otherVars

\* Line 142 / 156: the call.
CallScroll(pg) ==
    /\ apc = "scroll"
    /\ apc' = "scrolling"
    /\ spc' = "enter"
    /\ page' = pg
    /\ max_items' = IF phase = "comments" THEN MAX_COMMENTS ELSE MAX_REACTIONS
    /\ last_height' = 0
    /\ scrolled' = 0 /\ pauses' = 0 /\ measures' = 0
    /\ UNCHANGED <<phase, driver, activities, response, extractVars, logged,
                   browserLog>>
    /\ UNCHANGED otherVars

\* Line 142 / 156: _scroll_for_items returned.
ScrollReturns ==
    /\ apc = "scrolling" /\ spc = "returned"
    /\ apc' = "scrape"
    /\ spc' = "idle"
    /\ UNCHANGED <<page, max_items, last_height, scrolled, pauses, measures,
                   phase, driver, activities, response, extractVars, logged,
                   browserLog>>
    /\ UNCHANGED otherVars

\* Line 142 / 156: _scroll_for_items raised.
ScrollPropagates ==
    /\ apc = "scrolling" /\ spc = "raised"
    /\ spc' = "idle"
    /\ PhaseExcept(WebDriverException)
    /\ UNCHANGED <<page, max_items, last_height, scrolled, pauses, measures,
                   extractVars, browserLog>>
    /\ UNCHANGED otherVars

\* Line 143 / 157: the call, on a feed with or without an irregular item.
CallScrape(item, odd) ==
    /\ apc = "scrape"
    /\ apc' = "scraping"
    /\ call' = phase
    /\ pc' = "call"
    /\ regular' = item
    /\ irregular' = odd
    /\ items' = <<>> /\ idx' = 0
    /\ comments' = <<>> /\ reactions' = <<>>
    /\ is_reply' = FALSE /\ post_author' = Unbound
    /\ UNCHANGED <<phase, driver, activities, response, scrollVars, logged,
                   browserLog>>
    /\ UNCHANGED otherVars

\* Variant: storing one list resets the other.
StoreResultClobbers(acts, ph, list) ==
    [f \in DOMAIN acts |-> IF f = ph THEN list ELSE <<>>]

\* Line 143 / 157: the assignment to activities["comments"] /
\* activities["reactions"].
StoreResult(acts, ph, list) == [acts EXCEPT ![ph] = list]

\* Line 143 / 157: the extractor returned its list.
ScrapeReturns ==
    /\ apc = "scraping" /\ pc \in Ended
    /\ activities' = StoreResult(activities, phase,
                                 IF phase = "comments" THEN comments
                                 ELSE reactions)
    /\ pc' = "idle"
    /\ phase' = PhaseAfter(phase)
    /\ apc' = IF PhaseAfter(phase) = "done" THEN "return" ELSE "nav"
    /\ UNCHANGED <<call, regular, irregular, items, idx, comments, reactions,
                   is_reply, post_author, driver, response, scrollVars,
                   logged, browserLog>>
    /\ UNCHANGED otherVars

\* Line 163.
Return ==
    /\ apc = "return"
    /\ response' = activities
    /\ apc' = "returned"
    /\ UNCHANGED <<phase, driver, activities, extractVars, scrollVars, logged,
                   browserLog>>
    /\ UNCHANGED otherVars

\* Specification SpecActivity: invocations of get_person_activity, one
\* after the other.
InitActivity ==
    /\ ActivityIdle
    /\ ExtractIdle
    /\ ScrollIdle
    /\ logged = {}
    /\ browserLog = <<>>
    /\ OthersIdle

NextActivity ==
    \/ \E ok \in BOOLEAN : Invoke(ok)
    \/ \E ok \in BOOLEAN : Navigate(ok)
    \/ \E o \in {"present", TimeoutException, WebDriverException} : Wait(o)
    \/ \E pg \in ActivityPages : CallScroll(pg)
    \/ ScrollStep
    \/ ScrollRaise
    \/ ScrollReturns
    \/ ScrollPropagates
    \/ \E item \in (IF phase = "comments" THEN {DirectItem, ReplyItem}
                                          ELSE {ReactionItem}) :
          \E odd \in BOOLEAN : CallScrape(item, odd)
    \/ \E found \in BOOLEAN : FindContainer(found)
    \/ \E item \in NextItems : ScrapeCommentsItem(item)
    \/ \E item \in NextItems : ScrapeReactionsItem(item)
    \/ ListExhausted
    \/ ScrapeReturns
    \/ Return

SpecActivity == InitActivity /\ [][NextActivity]_vars

---------------------------------------------------------------------------
(* Overlapping invocations of get_person_activity (activity.py:118-165).    *)
(* The tool is a coroutine function (async def, line 119): each request     *)
(* becomes a coroutine on the server's event loop, which runs one coroutine *)
(* until it returns or awaits and only then turns to another.  All          *)
(* invocations use the one driver safe_get_driver returns.                  *)

\* Requests the client may have outstanding.
MaxCalls == 3

Calls == 1..MaxCalls

\* Variant: the content wait is awaited.
YieldsAtWait(position) == position = "wait"

\* Lines 129-165: the positions at which the coroutine awaits.  The body
\* holds no await expression; WebDriverWait.until and time.sleep block.
YieldsAt(position) == FALSE

\* The running invocation has started and has not returned.
Running == apc \notin {"idle", "returned"}

LoopFree == ~Running \/ YieldsAt(apc)

Requested ==
    arrived \cup { p.id : p \in parked } \cup finished
            \cup (IF task = 0 THEN {} ELSE {task})

\* The locals of the running coroutine.
Frame ==
    [extract |-> extractVars, scroll |-> scrollVars,
     activity |-> activityVars]

\* A suspended coroutine resumes with its locals.
Resume(f) ==
    /\ call' = f.extract[1] /\ pc' = f.extract[2]
    /\ regular' = f.extract[3] /\ irregular' = f.extract[4]
    /\ items' = f.extract[5] /\ idx' = f.extract[6]
    /\ comments' = f.extract[7] /\ reactions' = f.extract[8]
    /\ is_reply' = f.extract[9] /\ post_author' = f.extract[10]
    /\ spc' = f.scroll[1] /\ page' = f.scroll[2]
    /\ max_items' = f.scroll[3] /\ last_height' = f.scroll[4]
    /\ scrolled' = f.scroll[5] /\ pauses' = f.scroll[6]
    /\ measures' = f.scroll[7]
    /\ apc' = f.activity[1] /\ phase' = f.activity[2]
    /\ driver' = f.activity[3] /\ activities' = f.activity[4]
    /\ response' = f.activity[5]
    /\ UNCHANGED <<logged, browserLog>>

\* A tool call arrives, at any time; calls are numbered as they arrive.
Arrive(t) ==
    /\ t \notin Requested
    /\ \A u \in 1..(t - 1) : u \in Requested
    /\ arrived' = arrived \cup {t}
    /\ UNCHANGED <<task, parked, finished, pageOwner, postsVars, extractVars,
                   scrollVars, activityVars, logged, browserLog>>

\* The event loop turns to invocation t: it starts it if it is new (new
\* coroutines start in the order of their requests), resumes it if it is
\* suspended; the coroutine it leaves has returned or is suspended at an
\* await.
Dispatch(t, ok) ==
    /\ LoopFree
    /\ \/ t \in arrived /\ \A u \in arrived : t <= u
       \/ t \in { p.id : p \in parked }
    /\ task' = t
    /\ arrived' = arrived \ {t}
    /\ finished' = IF apc = "returned" THEN finished \cup {task} ELSE finished
    /\ parked' = { p \in parked : p.id # t } \cup
                 (IF Running THEN {[id |-> task, frame |-> Frame]} ELSE {})
    /\ IF t \in arrived
       THEN Begin(ok)
       ELSE ok /\ Resume((CHOOSE p \in parked : p.id = t).frame)
    /\ UNCHANGED <<pageOwner, postsVars>>

\* Specification SpecLoop: up to MaxCalls overlapping requests.
InitLoop == InitActivity

NextLoop ==
    \/ \E t \in Calls : Arrive(t)
    \/ \E t \in Calls, ok \in BOOLEAN : Dispatch(t, ok)
    \/ \E ok \in BOOLEAN : Navigate(ok)
    \/ \E o \in {"present", TimeoutException, WebDriverException} : Wait(o)
    \/ \E pg \in ActivityPages : CallScroll(pg)
    \/ ScrollStep
    \/ ScrollRaise
    \/ ScrollReturns
    \/ ScrollPropagates
    \/ \E item \in (IF phase = "comments" THEN {DirectItem, ReplyItem}
                                          ELSE {ReactionItem}) :
          \E odd \in BOOLEAN : CallScrape(item, odd)
    \/ \E found \in BOOLEAN : FindContainer(found)
    \/ \E item \in NextItems : ScrapeCommentsItem(item)
    \/ \E item \in NextItems : ScrapeReactionsItem(item)
    \/ ListExhausted
    \/ ScrapeReturns
    \/ Return

SpecLoop == InitLoop /\ [][NextLoop]_vars

---------------------------------------------------------------------------
(* The posts cache (posts.py): fetch_and_save_linkedin_posts (lines 24-73)  *)
(* and get_saved_posts (lines 76-100).  DATA_FILE either does not exist,    *)
(* holds text that is not JSON, or holds the JSON list of the saved posts.  *)

\* Posts in one API response, offsets and limits a client passes.
MaxPosts == 7

MaxStart == 8

MaxLimit == 6

Usernames == {"ann", "bob"}

\* os.getenv gives None or the string; line 34 treats None and "" alike.
Falsy(v) == v = ""

CorruptFile == [exists |-> TRUE, valid |-> FALSE, posts |-> <<>>]

\* The k-th post of the API's answer for a user; the posted field is a date
\* and a time separated by a blank, or absent.
ApiPost(u, k) ==
    [post_url |-> <<u, k>>,
     posted |-> IF k % 2 = 1 THEN <<"2024-05-06", "09:30:00">> ELSE <<>>]

ApiData(u) == { [k \in 1..n |-> ApiPost(u, k)] : n \in 0..MaxPosts }

\* requests.get / raise_for_status: a RequestException, a body that is not
\* JSON, or the JSON document {"data": [...]}.
HttpOutcomes(u) ==
    { [status |-> st, data |-> <<>>] : st \in {"failed", "not-json"} }
      \cup { [status |-> "ok", data |-> d] : d \in ApiData(u) }

\* Line 59: post.get("posted", "").split(" ")[0].
PostedDate(posted) == IF posted = <<>> THEN "" ELSE posted[1]

\* Lines 51-68: the saved form of the posts of one response, in its order.
SavedPosts(data) ==
    [k \in 1..Len(data) |->
        [Post_URL |-> data[k].post_url,
         Posted_Date |-> PostedDate(data[k].posted)]]

\* Variant: the file is opened for appending.
WriteFileAppending(old, posts) ==
    [exists |-> TRUE, valid |-> TRUE, posts |-> old.posts \o posts]

\* Lines 70-71: open(DATA_FILE, "w") and json.dump.
WriteFile(old, posts) == [exists |-> TRUE, valid |-> TRUE, posts |-> posts]

\* Lines 34-73.
FetchAndSave(u, http) ==
    /\ tool' = [name |-> "fetch_and_save_linkedin_posts", username |-> u,
                http |-> http]
    /\ IF Falsy(RAPIDAPI_KEY)
       THEN /\ result' = [message |-> "Error: RAPIDAPI_KEY is not set"]
            /\ UNCHANGED data_file
       ELSE IF http.status = "failed"
       THEN /\ result' = [message |-> "Error fetching posts"]
            /\ UNCHANGED data_file
       ELSE IF http.status = "not-json"
       THEN /\ result' = [raised |-> "JSONDecodeError"]
            /\ UNCHANGED data_file
       ELSE /\ data_file' = WriteFile(data_file, SavedPosts(http.data))
            /\ result' = [message |-> "Successfully fetched and saved",
                          count |-> Len(SavedPosts(http.data))]
    /\ UNCHANGED <<RAPIDAPI_KEY, extractVars, scrollVars, activityVars,
                   logged, browserLog, queueVars, pageOwner>>

\* seq[a:b] of Python: a negative index counts from the end, and both ends
\* are clamped to the sequence.
PyIndex(k, n) == IF k < 0 THEN (IF k + n < 0 THEN 0 ELSE k + n) ELSE Min2(k, n)

PySlice(seq, a, b) ==
    LET lo == PyIndex(a, Len(seq))
        hi == PyIndex(b, Len(seq))
    IN  IF lo < hi THEN SubSeq(seq, lo + 1, hi) ELSE <<>>

\* Lines 87-100.
get_saved_posts(file, start, limit) ==
    IF ~file.exists
    THEN [message |-> "No data found", posts |-> <<>>]
    ELSE IF ~file.valid
    THEN [message |-> "Error reading data file", posts |-> <<>>]
    ELSE LET total_posts == Len(file.posts)
             lim == Min2(limit, 5)
         IN  [posts |-> PySlice(file.posts, start, start + lim),
              total_posts |-> total_posts,
              has_more |-> start + lim < total_posts]

GetSavedPosts(start, limit) ==
    /\ tool' = [name |-> "get_saved_posts", start |-> start, limit |-> limit]
    /\ result' = get_saved_posts(data_file, start, limit)
    /\ UNCHANGED <<RAPIDAPI_KEY, data_file, extractVars, scrollVars,
                   activityVars, logged, browserLog, queueVars, pageOwner>>

\* Specification SpecPosts: any sequence of calls of the two tools.
InitPosts ==
    /\ RAPIDAPI_KEY \in {"", "secret"}
    /\ data_file \in {NoFile, CorruptFile}
    /\ tool = NoCall
    /\ result = NoResult
    /\ QueueIdle /\ pageOwner = 0
    /\ ExtractIdle
    /\ ScrollIdle
    /\ ActivityIdle
    /\ logged = {}
    /\ browserLog = <<>>

NextPosts ==
    \/ \E u \in Usernames : \E http \in HttpOutcomes(u) : FetchAndSave(u, http)
    \/ \E start \in -MaxStart..MaxStart, limit \in -MaxLimit..MaxLimit :
          GetSavedPosts(start, limit)

SpecPosts == InitPosts /\ [][NextPosts]_vars

---------------------------------------------------------------------------
(* _scrape_reactions as a function of the whole list (activity.py:86-107,   *)
(* container found): the loop above, run to its end.                        *)

RECURSIVE ScrapeReactionsFrom(_, _, _)
ScrapeReactionsFrom(list, i, rs) ==
    IF i > Len(list) \/ AtLimit(rs, MAX_REACTIONS) THEN rs
    ELSE ScrapeReactionsFrom(list, i + 1, ReactionIteration(i, list[i], rs))

ScrapeReactions(list) == ScrapeReactionsFrom(list, 1, <<>>)

---------------------------------------------------------------------------
(* What the claims speak of.                                                *)

\* The header text contains "replied to".
IsReplyHeader(h) ==
    \E k \in 1..(Len(h) - 1) : h[k] = "replied" /\ h[k + 1] = "to"

\* The first entity of es with (reply = TRUE) or without (FALSE) the reply
\* marker, 0 if there is none.
FirstMarked(es, marked) ==
    IF \E k \in 1..Len(es) : es[k].reply = marked
    THEN CHOOSE k \in 1..Len(es) :
            /\ es[k].reply = marked
            /\ \A m \in 1..(k - 1) : es[m].reply # marked
    ELSE 0

\* A direct comment item with every required sub-element.
WellFormedDirect(item) ==
    /\ item.actor
    /\ Len(item.entities) >= 1
    /\ item.entities[1].main /\ item.entities[1].time

\* A reply item with every required sub-element.
WellFormedReply(item) ==
    LET es == item.entities
        r == FirstMarked(es, TRUE)
        o == FirstMarked(es, FALSE)
    IN  /\ item.actor
        /\ r # 0 /\ es[r].main /\ es[r].time
        /\ o # 0 /\ es[o].main

WellFormedComment(item) ==
    IF IsReplyHeader(item.header) THEN WellFormedReply(item)
    ELSE WellFormedDirect(item)

WellFormedReaction(item) ==
    item.actor /\ item.content /\ item.header # NoElement /\ item.sub

\* The feed items that have a record in the list.
RecordedItems(list) == { list[k].post_author.item : k \in 1..Len(list) }

\* The well-formed items among the first max well-formed items of the list.
FirstWellFormed(WF(_), max) ==
    LET wf == { i \in 1..Len(items) : WF(items[i]) }
    IN  { i \in wf : Cardinality({ j \in wf : j <= i }) <= max }

---------------------------------------------------------------------------
(* C1 (as claimed): when _scrape_comments has returned, having found the    *)
(* container, its records are exactly those of the well-formed items of the *)
(* list, up to the first 20: a malformed item at any position, the first    *)
(* included, costs only its own record.                                     *)
C1_SkipsOnlyMalformed ==
    (call = "comments" /\ pc \in Ended /\ idx > 0)
        => RecordedItems(comments) = FirstWellFormed(WellFormedComment, 20)

---------------------------------------------------------------------------
(* C4: every record of _scrape_comments has original_comment other than     *)
(* None exactly when is_reply is true, and a reply item whose original      *)
(* entity, or that entity's text, is missing has no record.                 *)
C4_OriginalIffReply ==
    /\ \A k \in 1..Len(comments) :
          (comments[k].original_comment # None) <=> comments[k].is_reply
    /\ \A i \in 1..idx :
          LET o == FirstMarked(items[i].entities, FALSE)
          IN  (call = "comments" /\ IsReplyHeader(items[i].header)
                 /\ (o = 0 \/ ~items[i].entities[o].main))
                => i \notin RecordedItems(comments)

\* A reply has been recorded, and a reply item without original entity but
\* with everything else has been taken and skipped.
C4_Witness ==
    /\ \E k \in 1..Len(comments) :
          comments[k].is_reply /\ comments[k].original_comment # None
    /\ \E i \in 1..idx :
          /\ IsReplyHeader(items[i].header) /\ items[i].actor
          /\ FirstMarked(items[i].entities, FALSE) = 0
          /\ items[i].entities # <<>>
          /\ \A e \in 1..Len(items[i].entities) :
                items[i].entities[e].main /\ items[i].entities[e].time
          /\ i \notin RecordedItems(comments)
          /\ i < idx /\ pc = "loop"

---------------------------------------------------------------------------
(* C5: in every state of an extraction the comments list and the reactions  *)
(* list hold at most 20 records each.                                       *)
C5_AtMostTwenty == Len(comments) <= 20 /\ Len(reactions) <= 20

\* The loop has left by the break: more than 20 items were rendered, one of
\* them malformed, and 20 records are held.
C5_Witness ==
    /\ pc = "break" /\ Len(items) > 20
    /\ Len(comments) = 20 \/ Len(reactions) = 20
    /\ \E i \in 1..idx :
          IF call = "comments" THEN ~WellFormedComment(items[i])
          ELSE ~WellFormedReaction(items[i])

---------------------------------------------------------------------------
(* C7: every record of _scrape_reactions has exactly the four fields, each  *)
(* the text of an element present in its item; an item with a lookup that   *)
(* fails has no record; and the loop goes on: it never leaves through the   *)
(* outer handler, and every well-formed item it takes is recorded.          *)
C7_NoPartialReaction ==
    call = "reactions" =>
      /\ idx > 0 => pc # "raised"
      /\ \A k \in 1..Len(reactions) :
            LET r == reactions[k]
                i == r.post_author.item
            IN  /\ DOMAIN r = {"post_author", "post_content", "reaction",
                               "timestamp"}
                /\ i \in 1..idx
                /\ items[i].actor /\ r.post_author = Tx(i, "actor__title", 0)
                /\ items[i].content
                /\ r.post_content = Tx(i, "update-components-text", 0)
                /\ items[i].header # NoElement
                /\ r.reaction = Tx(i, "header__text-view", 0)
                /\ items[i].sub
                /\ r.timestamp = Tx(i, "actor__sub-description", 0)
      /\ \A i \in 1..idx :
            ~WellFormedReaction(items[i]) => i \notin RecordedItems(reactions)
      /\ \A i \in 1..idx :
            i \in FirstWellFormed(WellFormedReaction, 20)
                => i \in RecordedItems(reactions)

\* An item with a failing lookup was skipped and the next item recorded.
C7_Witness ==
    /\ call = "reactions"
    /\ \E i \in 1..(idx - 1) :
          /\ ~WellFormedReaction(items[i])
          /\ i \notin RecordedItems(reactions)
          /\ (i + 1) \in RecordedItems(reactions)

---------------------------------------------------------------------------
(* C8: removing the reaction label from one otherwise well-formed item of   *)
(* the list makes the result one record shorter and leaves no record of the *)
(* item.                                                                    *)

\* Well-formed but for the missing reaction label.
LabelOnlyMissing(item) ==
    item.actor /\ item.content /\ item.header = NoElement /\ item.sub

\* The list with the label of item p put back.
WithLabel(list, p) ==
    [list EXCEPT ![p] = [@ EXCEPT !.header = <<"Ann", "likes", "this">>]]

\* C8 (as claimed): for any list.
C8_OneShorter ==
    (call = "reactions" /\ pc \in {"exhausted", "break"}) =>
      \A p \in 1..Len(items) :
         LabelOnlyMissing(items[p]) =>
           /\ Len(reactions) = Len(ScrapeReactions(WithLabel(items, p))) - 1
           /\ p \notin RecordedItems(reactions)

\* C8 (amended): for any list with at most 20 well-formed items once the
\* label is back; with more, the next well-formed item takes the place.
C8_OneShorterWithinBound ==
    (call = "reactions" /\ pc \in {"exhausted", "break"}) =>
      \A p \in 1..Len(items) :
         LabelOnlyMissing(items[p]) =>
           /\ Cardinality({ i \in 1..Len(items) :
                              WellFormedReaction(WithLabel(items, p)[i]) }) <= 20
                => Len(reactions)
                     = Len(ScrapeReactions(WithLabel(items, p))) - 1
           /\ p \notin RecordedItems(reactions)

\* A list of several items, one of them without its label, was scraped to
\* its end.
C8_Witness ==
    /\ call = "reactions" /\ pc = "exhausted"
    /\ Len(reactions) >= 2
    /\ \E p \in 2..(Len(items) - 1) : LabelOnlyMissing(items[p])

---------------------------------------------------------------------------
(* C9: the item the loop has just taken is classified as a reply exactly    *)
(* when its header element exists and its text contains "replied to"; every *)
(* record carries that classification; and an item without header element   *)
(* that has everything a direct comment needs is recorded as direct.        *)
C9_ClassifyNeverAborts ==
    /\ (call = "comments" /\ idx > 0 /\ pc # "break")
          => /\ is_reply = (items[idx].header # NoElement
                              /\ IsReplyHeader(items[idx].header))
             /\ (items[idx].header = NoElement /\ WellFormedDirect(items[idx]))
                   => /\ pc # "raised"
                      /\ idx \in RecordedItems(comments)
                      /\ ~comments[Len(comments)].is_reply
    /\ \A k \in 1..Len(comments) :
          comments[k].is_reply
            = IsReplyHeader(items[comments[k].post_author.item].header)

\* An item without header element was recorded as a direct comment, after a
\* reply.
C9_Witness ==
    /\ call = "comments" /\ pc = "loop" /\ idx > 1
    /\ items[idx].header = NoElement
    /\ idx \in RecordedItems(comments)
    /\ ~comments[Len(comments)].is_reply
    /\ comments[1].is_reply

---------------------------------------------------------------------------
(* C6: on a page whose height no longer changes after N scrolls,            *)
(* _scroll_for_items is over after at most N + 1 scroll-and-measure cycles, *)
(* whether or not the target count is ever rendered.                        *)

\* The least N such that the height after every later scroll is the height
\* after N scrolls.
StableFrom(pg) ==
    LET n == Len(pg.heights)
        stable == { k \in 0..n :
                      \A m \in k..n : HeightAfter(pg, m) = HeightAfter(pg, k) }
    IN  CHOOSE k \in stable : \A m \in stable : k <= m

ScrollCyclesBounded ==
    spc # "idle" =>
      /\ scrolled <= StableFrom(page) + 1
      /\ measures <= StableFrom(page) + 1
      /\ measures = StableFrom(page) + 1 => spc = "returned"

C6_ScrollTerminates ==
    /\ []ScrollCyclesBounded
    /\ <>(spc \in {"returned", "raised"})

\* The page grew for two scrolls or more, the loop returned after the cycle
\* that found it unchanged, and the target count was never rendered.
C6_Witness ==
    /\ spc = "returned"
    /\ StableFrom(page) >= 2
    /\ measures = StableFrom(page) + 1
    /\ CountAfter(page, scrolled) < max_items

---------------------------------------------------------------------------
(* The orchestrator's claims.                                               *)

\* The browser log holds an action of this kind for this phase.
InLog(ph, kind) ==
    \E i \in 1..Len(browserLog) : browserLog[i] = <<ph, kind>>

\* A driver call of the phase raised something other than the wait timeout.
BrokeIn(ph) ==
    \E kind \in {"navigate-error", "wait-error", "scroll-error"} :
        InLog(ph, kind)

ResultFields == {"comments", "reactions"}

---------------------------------------------------------------------------
(* C2 (as claimed): when the invocation has returned after a failure other  *)
(* than a wait timeout or an item failure (no session, or a navigation,     *)
(* wait or scroll that raised), the response is the structured error.       *)
C2_OtherFailureIsError ==
    (apc = "returned"
       /\ (driver = "unbound" \/ BrokeIn("comments") \/ BrokeIn("reactions")))
      => "error" \in DOMAIN response

\* C2 (amended): the response is the structured error exactly when
\* safe_get_driver raised; a navigation, wait or scroll that raises inside a
\* phase is caught there, and the response is a result without error field
\* in which that phase's list is empty.
C2_OnlyDriverFailureIsError ==
    apc = "returned" =>
      /\ ("error" \in DOMAIN response) <=> (driver = "unbound")
      /\ driver = "unbound" =>
            /\ response.error = DriverUnavailable
            /\ response.context = "get_person_activity"
      /\ \A ph \in ResultFields :
            BrokeIn(ph) => /\ DOMAIN response = ResultFields
                           /\ response[ph] = <<>>

\* The session could not be acquired and the call returned the error.
C2_Witness ==
    /\ apc = "returned" /\ driver = "unbound"
    /\ "error" \in DOMAIN response
    /\ browserLog = <<>>

---------------------------------------------------------------------------
(* C3: when the wait of the comments phase timed out, the invocation still  *)
(* navigates to the reactions page, and it returns a result without error   *)
(* field whose comments are empty and whose reactions are the list          *)
(* _scrape_reactions returned (empty if the reactions phase never got to    *)
(* call it).                                                                *)
C3_TimeoutKeepsReactions ==
    (apc = "returned" /\ InLog("comments", "wait-timeout")) =>
      /\ DOMAIN response = ResultFields
      /\ response.comments = <<>>
      /\ InLog("reactions", "navigate") \/ InLog("reactions", "navigate-error")
      /\ response.reactions = IF call = "reactions" THEN reactions ELSE <<>>

\* The comments wait timed out and the reactions phase extracted records.
C3_Witness ==
    /\ apc = "returned" /\ InLog("comments", "wait-timeout")
    /\ DOMAIN response = ResultFields
    /\ Len(response.reactions) >= 2

---------------------------------------------------------------------------
(* C10: in the browser log of an invocation no action of the comments phase *)
(* comes after an action of the reactions phase, and an action of the       *)
(* reactions phase comes only after the comments page was navigated to.     *)
C10_CommentsBeforeReactions ==
    \A j \in 1..Len(browserLog) :
       browserLog[j][1] = "reactions" =>
         /\ \A k \in j..Len(browserLog) : browserLog[k][1] # "comments"
         /\ \E i \in 1..(j - 1) :
               /\ browserLog[i][1] = "comments"
               /\ browserLog[i][2] \in {"navigate", "navigate-error"}

\* Both phases navigated, waited, scrolled and extracted.
C10_Witness ==
    /\ apc = "returned"
    /\ \A ph \in ResultFields :
          /\ InLog(ph, "navigate") /\ InLog(ph, "wait")
          /\ InLog(ph, "scroll") /\ InLog(ph, "extract")
    /\ Len(response.comments) >= 1 /\ Len(response.reactions) >= 1

---------------------------------------------------------------------------
(* C14: _scroll_for_items returns only when the rendered item count is at   *)
(* least the target or the height after the latest scroll equals the height *)
(* measured before it; it does not scroll when the target is rendered on    *)
(* entry; and every scroll is followed by exactly one settle pause and one  *)
(* height measurement before the next check.                                *)

C14_ReturnsOnTargetOrSameHeight ==
    /\ spc = "returned" =>
         \/ CountAfter(page, scrolled) >= max_items
         \/ /\ scrolled >= 1
            /\ HeightAfter(page, scrolled) = HeightAfter(page, scrolled - 1)
    /\ (spc # "idle" /\ CountAfter(page, 0) >= max_items) => scrolled = 0
    /\ spc \in {"check", "scroll", "returned"} =>
         pauses = scrolled /\ measures = scrolled
    /\ spc = "sleep" => pauses = scrolled - 1 /\ measures = scrolled - 1
    /\ spc = "measure" => pauses = scrolled /\ measures = scrolled - 1
    /\ spc = "raised" =>
         /\ pauses \in {scrolled - 1, scrolled}
         /\ measures \in {pauses - 1, pauses}

\* The target count was rendered by the second scroll, while the page was
\* still growing: the loop returned on the count, after two scrolls, two
\* pauses and two measurements.
C14_Witness ==
    /\ spc = "returned"
    /\ scrolled = 2 /\ pauses = 2 /\ measures = 2
    /\ CountAfter(page, 1) < max_items
    /\ CountAfter(page, 2) >= max_items
    /\ HeightAfter(page, 2) # HeightAfter(page, 1)

---------------------------------------------------------------------------
(* C15 (as claimed): when _scrape_comments has returned, having found the   *)
(* container, its list holds one record for each of the first min(20, k)    *)
(* well-formed items of the k well-formed items of the batch, in the order  *)
(* of the batch, malformed items neither counting nor reordering; a batch   *)
(* of at most 20 items, all well-formed direct comments, gives one record   *)
(* per item, each with is_reply false and original_comment None.            *)

\* The feed item each record of the list was read from, in list order.
RecordOrder(list) == [k \in 1..Len(list) |-> list[k].post_author.item]

AllDirect ==
    \A i \in 1..Len(items) :
        ~IsReplyHeader(items[i].header) /\ WellFormedDirect(items[i])

C15_FirstTwentyInOrder ==
    (call = "comments" /\ pc \in Ended /\ idx > 0) =>
      LET wf == FirstWellFormed(WellFormedComment, 20)
          order == RecordOrder(comments)
      IN  /\ Len(comments) = Cardinality(wf)
          /\ \A k \in 1..Len(order) : order[k] \in wf
          /\ \A j, k \in 1..Len(order) : j < k => order[j] < order[k]
          /\ (AllDirect /\ Len(items) <= 20) =>
                /\ Len(comments) = Len(items)
                /\ \A k \in 1..Len(comments) :
                      /\ comments[k].is_reply = FALSE
                      /\ comments[k].original_comment = None

---------------------------------------------------------------------------
(* C16: every record of _scrape_comments read from an item that is          *)
(* classified as a reply and holds both a reply-marked and a non-reply      *)
(* comment entity takes comment and timestamp from the reply-marked entity  *)
(* and original_comment from the non-reply entity, whichever comes first in *)
(* the item.                                                                *)
C16_ReplyEntityByMarker ==
    call = "comments" =>
      \A k \in 1..Len(comments) :
        LET i == comments[k].post_author.item
            es == items[i].entities
        IN  (/\ IsReplyHeader(items[i].header)
             /\ \E r \in 1..Len(es) : es[r].reply
             /\ \E o \in 1..Len(es) : ~es[o].reply)
            => /\ comments[k].is_reply
               /\ comments[k].comment.item = i
               /\ comments[k].comment.el = "main-content"
               /\ es[comments[k].comment.ent].reply
               /\ comments[k].timestamp.item = i
               /\ comments[k].timestamp.el = "meta__data"
               /\ comments[k].timestamp.ent = comments[k].comment.ent
               /\ comments[k].original_comment.item = i
               /\ comments[k].original_comment.el = "main-content"
               /\ ~es[comments[k].original_comment.ent].reply

\* The list holds the record of a reply whose reply-marked entity comes
\* first in the item, and the record of one where it comes last.
C16_Witness ==
    /\ call = "comments"
    /\ \E k \in 1..Len(comments) :
          /\ comments[k].is_reply
          /\ comments[k].comment.ent = 1
          /\ comments[k].original_comment.ent = 2
    /\ \E k \in 1..Len(comments) :
          /\ comments[k].is_reply
          /\ comments[k].comment.ent = 2
          /\ comments[k].original_comment.ent = 1

---------------------------------------------------------------------------
(* Exceptions inside a phase.                                               *)

\* An exception ended the work of the phase: the wait timed out, a driver
\* call of navigation, wait or scroll raised, or the extractor left its loop
\* through its outer handler (line 79 / 106).
PhaseFailed(ph) ==
    \/ InLog(ph, "wait-timeout")
    \/ BrokeIn(ph)
    \/ ("error:" \o ph \o "-list") \in logged

\* A lookup inside one item raised and the item's handler caught it
\* (line 76 logs it, line 103 does not).
ItemFailed(ph) ==
    IF ph = "comments" THEN "warning:comment-item" \in logged
    ELSE /\ call = "reactions"
         /\ \E i \in 1..idx : ~WellFormedReaction(items[i])

---------------------------------------------------------------------------
---------------------------------------------------------------------------
(* C13: when the reactions phase failed, the response has no error field,   *)
(* an empty reactions list and the comments list the comments phase         *)
(* produced: no step of the reactions phase changes activities["comments"], *)
(* and no step of the comments phase changes activities["reactions"], which *)
(* at the return is what _scrape_reactions returned (empty if it was never  *)
(* called).                                                                 *)
C13_ReactionsFailureKeepsComments ==
    /\ []((apc = "returned" /\ PhaseFailed("reactions")) =>
            /\ DOMAIN response = ResultFields
            /\ response.reactions = <<>>
            /\ response.comments = activities.comments)
    /\ []((apc = "returned" /\ driver = "session") =>
            response.reactions = IF call = "reactions" THEN reactions
                                 ELSE <<>>)
    /\ [][phase = "reactions" =>
            activities'.comments = activities.comments]_vars
    /\ [][phase = "comments" =>
            /\ activities'.reactions = <<>>
            /\ phase' = "reactions" =>
                 activities'.comments = IF pc \in Ended THEN comments
                                        ELSE <<>>]_vars

\* The comments phase collected records, the navigation of the reactions
\* phase raised, and the response holds those comments and no reactions.
C13_Witness ==
    /\ apc = "returned"
    /\ InLog("reactions", "navigate-error")
    /\ call = "comments" /\ Len(comments) >= 2
    /\ response = [comments |-> comments, reactions |-> <<>>]

---------------------------------------------------------------------------
(* C17: at most one invocation of get_person_activity is between its start  *)
(* and its return at any time, however the requests overlap, and whenever   *)
(* an invocation waits for, scrolls or extracts from the page, the page is  *)
(* the one this invocation navigated to.                                    *)

\* The invocations that have started and not returned.
InProgress ==
    { p.id : p \in parked } \cup (IF Running THEN {task} ELSE {})

C17_OneInvocationAtATime ==
    /\ Cardinality(InProgress) <= 1
    /\ apc \in {"wait", "scroll", "scrolling", "scrape", "scraping"} =>
          pageOwner = task

\* The first invocation has returned and the second is extracting from its
\* own page while a third request is outstanding.
C17_Witness ==
    /\ task = 2 /\ 1 \in finished /\ arrived # {}
    /\ apc = "scraping" /\ pc = "loop" /\ idx >= 1
    /\ pageOwner = 2

---------------------------------------------------------------------------
(* C11 (as claimed): a page get_saved_posts reads from the cache holds at   *)
(* most 5 posts, for every start and every limit, and when the page is not  *)
(* empty has_more is true exactly when the cache holds a post after the     *)
(* page's last post.                                                        *)

\* The position in the cache of a post the cache holds.
PositionOf(post) ==
    CHOOSE k \in 1..Len(data_file.posts) : data_file.posts[k] = post

C11_AtMostFivePosts ==
    (tool.name = "get_saved_posts" /\ "has_more" \in DOMAIN result) =>
      /\ Len(result.posts) <= 5
      /\ result.posts # <<>> =>
           (result.has_more <=>
              PositionOf(result.posts[Len(result.posts)])
                 < Len(data_file.posts))

---------------------------------------------------------------------------
(* C18: a call of fetch_and_save_linkedin_posts succeeds exactly when the   *)
(* key is set and the request succeeds with a JSON body; a call that does   *)
(* not succeed leaves DATA_FILE as it was, a call that succeeds leaves in   *)
(* it the posts of its own response and nothing else, one saved post per    *)
(* post of the response and in its order; get_saved_posts never changes     *)
(* the file.                                                                *)
C18_CacheIsLatestFetch ==
    [][/\ tool'.name = "get_saved_posts" => data_file' = data_file
       /\ tool'.name = "fetch_and_save_linkedin_posts" =>
            /\ ("count" \in DOMAIN result') <=>
                  (~Falsy(RAPIDAPI_KEY) /\ tool'.http.status = "ok")
            /\ IF "count" \in DOMAIN result'
               THEN /\ data_file'.exists /\ data_file'.valid
                    /\ result'.count = Len(tool'.http.data)
                    /\ Len(data_file'.posts) = Len(tool'.http.data)
                    /\ \A k \in 1..Len(tool'.http.data) :
                          data_file'.posts[k].Post_URL
                             = tool'.http.data[k].post_url
               ELSE data_file' = data_file]_vars

\* The request of the latest fetch failed and the cache still holds the
\* posts an earlier fetch saved for the other user.
C18_Witness ==
    /\ tool.name = "fetch_and_save_linkedin_posts"
    /\ result = [message |-> "Error fetching posts"]
    /\ data_file.exists /\ data_file.valid
    /\ Len(data_file.posts) >= 2
    /\ data_file.posts[1].Post_URL[1] # tool.username

====
